---- MODULE Spec2Model ----
(***************************************************************************)
(* LogParser2Clickhouse: the ingestion pipeline of app/app.py (main), the  *)
(* offset-tracked reader of utils/read_logs.py and the table / view        *)
(* operations of utils/database.py.                                        *)
(*                                                                         *)
(* Spec      : runs of main() over the four log sources.                   *)
(* SpecView  : calls of generate_join_query / create_materialized_view on  *)
(*             view configurations drawn from a bounded set.               *)
(***************************************************************************)
EXTENDS Integers, Sequences, FiniteSets, TLC

\* ---------------------------------------------------------------- bounds
MaxLines == 2      \* lines written to the log files, all sources together
MaxRuns == 2       \* runs of main()
MaxFaults == 1     \* I/O and store failures the environment injects
MaxEdges == 2      \* join edges of a view configuration
MaxCalls == 2      \* create_materialized_view calls on one configuration
MaxCols == 2       \* columns of one table of a join input
LineBytes == 2     \* bytes of one log line (newline included)

\* ------------------------------------------------------------- constants
\* app.py:23  tables = ['enrollment', 'instructor', 'course', 'login']
Tables == <<"enrollment", "instructor", "course", "login">>
Sources == {Tables[i] : i \in 1..Len(Tables)}
NTables == Len(Tables)

VARIABLES
    pc,            \* main(): [phase, i] - the statement main is about to run
    runs,          \* runs of main() started so far
    logFile,       \* source -> number of lines in its append-only log file
    offsetFile,    \* source -> [exists, text]: the offset file, text = decimal digits
    csvFile,       \* source -> [exists, rows]: the staged CSV file
    tableExists,   \* source -> the store has the table
    table,         \* source -> rows (log line numbers) the table holds
    logs,          \* source -> this run's read_logs result: [kind, lines]
    tblColumns,    \* source -> tbl_columns[source] is set (not None) in this run
    viewExists,    \* the view's backing table exists in the store
    mvExists,      \* the materialized view exists in the store
    \* history of the current run, per source
    offsetBefore,  \* offset persisted when this run's read_logs was entered
    readEnd,       \* f.tell() at the end of this run's read_logs (0: no read completed)
    readStep,      \* how this run's read_logs ended
    truncStep,     \* how this run's remove_table_data ended
    normStep,      \* how this run's log_to_csv / instructor_log_csv ended
    insStep,       \* how this run's insert_csv_file ended
    returnCount,   \* source -> line -> times read_logs returned it (all runs)
    faults,        \* failures injected so far
    \* generate_join_query / create_materialized_view called on their own
    cfg,           \* the view configuration of the call
    joinResult,    \* result of the last generate_join_query call
    mvResult,      \* the last create_materialized_view call: what it sent, how it ended
    tableQuery,    \* the last generate_table_query call: its table and its result
    calls          \* calls made on cfg so far

pipeVars == <<pc, runs, logFile, offsetFile, csvFile, tableExists, table, logs,
              tblColumns, offsetBefore, readEnd, readStep, truncStep, normStep, insStep,
              returnCount, faults>>
storeVars == <<viewExists, mvExists>>
viewVars == <<cfg, joinResult, mvResult, tableQuery, calls>>
vars == <<pipeVars, storeVars, viewVars>>

\* ------------------------------------------------- offset file (read_logs.py)
RECURSIVE DecStr(_)
\* str(offset): the decimal digits of a non-negative integer
DecStr(n) == IF n < 10 THEN <<n>> ELSE Append(DecStr(n \div 10), n % 10)

RECURSIVE ParseInt(_)
\* int(value) of a non-empty digit string
ParseInt(s) ==
    IF Len(s) = 1 THEN s[1]
    ELSE 10 * ParseInt(SubSeq(s, 1, Len(s) - 1)) + s[Len(s)]

NoFile == [exists |-> FALSE, text |-> <<>>]
EmptyFile == [exists |-> TRUE, text |-> <<>>]

\* get_offset: 0 when the file is absent or empty, or when reading it raises
get_offset(f, raises) ==
    IF raises THEN 0
    ELSE IF f.exists
         THEN (IF f.text # <<>> THEN ParseInt(f.text) ELSE 0)
         ELSE 0

\* set_offset: open(file, 'w') truncates, then the decimal text is written; an
\* exception is logged and swallowed.  outcome: "ok", "open_raises" (file left
\* as it was), "write_raises" (file already truncated by open).
set_offset(f, offset, outcome) ==
    CASE outcome = "ok" -> [exists |-> TRUE, text |-> DecStr(offset)]
      [] outcome = "open_raises" -> f
      [] outcome = "write_raises" -> EmptyFile
SetOutcomes == {"ok", "open_raises", "write_raises"}

\* clear_file_content: open(file, 'w') and nothing else; failure is logged
clear_file_content(f, raises) == IF raises THEN f ELSE EmptyFile

\* ------------------------------------------------------ read_logs (read_logs.py)
Lines(n) == 1..n
FileSize(n) == n * LineBytes

\* f.seek(offset); f.readlines(): the lines that start at or after offset
readlines(offset, n) == {k \in Lines(n) : (k - 1) * LineBytes >= offset}

\* f.tell() after the read: end of file, or the seek position when beyond it
tell(offset, n) == IF offset > FileSize(n) THEN offset ELSE FileSize(n)

ReadFailPoints == {"open", "seek", "readlines"}
ReadPoints == ReadFailPoints \cup {"none"}

None == [kind |-> "None", lines |-> {}]
Unset == [kind |-> "unset", lines |-> {}]
List(ls) == [kind |-> "list", lines |-> ls]

\* read_logs with set_offset moved out of the guarded read (a finally clause)
read_logs_offset_file_always(f, offset, n, failAt, setOutcome) ==
    set_offset(f, tell(offset, n), setOutcome)

\* what read_logs leaves in the offset file
read_logs_offset_file(f, offset, n, failAt, setOutcome) ==
    IF failAt # "none" THEN f
    ELSE set_offset(f, tell(offset, n), setOutcome)

\* what read_logs returns
read_logs_result(offset, n, failAt) ==
    IF failAt # "none" THEN None ELSE List(readlines(offset, n))

\* ------------------------------------------------ names and aliases (database.py)
\* a table name is its sequence of characters
enrollment == <<"e","n","r","o","l","l","m","e","n","t">>
instructor == <<"i","n","s","t","r","u","c","t","o","r">>
course == <<"c","o","u","r","s","e">>
login == <<"l","o","g","i","n">>
course_info == <<"c","o","u","r","s","e","_","i","n","f","o">>
course_internal == <<"c","o","u","r","s","e","_","i","n","t","e","r","n","a","l">>

RECURSIVE split(_, _)
\* str.split(sep)
split(s, sep) ==
    IF \E i \in 1..Len(s) : s[i] = sep
    THEN LET i == CHOOSE i \in 1..Len(s) :
                      s[i] = sep /\ \A j \in 1..(i - 1) : s[j] # sep
         IN  <<SubSeq(s, 1, i - 1)>> \o split(SubSeq(s, i + 1, Len(s)), sep)
    ELSE <<s>>

\* word[0] raises IndexError on an empty word
alias_raises(tbl) == \E i \in 1..Len(split(tbl, "_")) : split(tbl, "_")[i] = <<>>

\* ''.join(word[0] for word in tbl.split('_'))
table_alias(tbl) ==
    LET words == split(tbl, "_") IN [i \in 1..Len(words) |-> words[i][1]]

\* the table_alias dict over the names in use
TableNamesInUse == {enrollment, instructor, course, login, course_info, course_internal}
Aliases == [t \in TableNamesInUse |-> table_alias(t)]
AliasRaises == [t \in TableNamesInUse |-> alias_raises(t)]
alias_of(tbl) == Aliases[tbl]

\* ---------------------------------------------- schema synthesis (database.py)
DATATYPE_MAPPING ==
    [t \in {"int64", "int32", "int16", "int8", "uint64", "uint32", "uint16",
            "uint8", "float64", "float32", "bool", "datetime64[ns]",
            "datetime64[ns, UTC]", "timedelta64[ns]", "object", "string",
            "category"} |->
        CASE t = "int64" -> "Int64"
          [] t = "int32" -> "Int32"
          [] t = "int16" -> "Int16"
          [] t = "int8" -> "Int8"
          [] t = "uint64" -> "UInt64"
          [] t = "uint32" -> "UInt32"
          [] t = "uint16" -> "UInt16"
          [] t = "uint8" -> "UInt8"
          [] t = "float64" -> "Float64"
          [] t = "float32" -> "Float32"
          [] t = "bool" -> "Bool"
          [] t = "datetime64[ns]" -> "Nullable(DateTime)"
          [] t = "datetime64[ns, UTC]" -> "Nullable(DateTime)"
          [] t = "timedelta64[ns]" -> "Int64"
          [] t = "object" -> "String"
          [] t = "string" -> "String"
          [] t = "category" -> "String"]

\* the lookup alone, without the override by name
storage_type_no_override(col, dtype) ==
    IF dtype \in DOMAIN DATATYPE_MAPPING THEN DATATYPE_MAPPING[dtype] ELSE "String"

\* 'DateTime' if col in ['update_time', 'timestamp'] else DATATYPE_MAPPING.get(str(dtype), 'String')
storage_type(col, dtype) ==
    IF col \in {"update_time", "timestamp"} THEN "DateTime"
    ELSE IF dtype \in DOMAIN DATATYPE_MAPPING THEN DATATYPE_MAPPING[dtype]
         ELSE "String"

\* f"{col} {type}" for col, dtype in columns.items()
TableFields(columns) ==
    [j \in 1..Len(columns) |->
        [col |-> columns[j].col,
         type |-> storage_type(columns[j].col, columns[j].dtype)]]

\* generate_table_query(columns, tbl, ord_by): the CREATE TABLE statement
generate_table_query(columns, tbl, ord_by) ==
    [stmt |-> "CREATE TABLE IF NOT EXISTS", name |-> tbl,
     fields |-> TableFields(columns), engine |-> "ReplacingMergeTree(update_time)",
     order_by |-> ord_by]

\* ------------------------------------------------- join compiler (database.py)
\* tables_columns is an ordered dict: a sequence of [tbl, isNone, cols], cols a
\* sequence of [col, dtype]; join_column is an ordered dict: a sequence of
\* [t1, t2, col].
Range(q) == {q[i] : i \in 1..Len(q)}
TableNames(tc) == {tc[i].tbl : i \in 1..Len(tc)}

RECURSIVE Flatten(_)
Flatten(qq) == IF qq = <<>> THEN <<>> ELSE Head(qq) \o Flatten(Tail(qq))

\* f"{alias}.{col} AS {alias}_{col}"
ProjItem(tbl, col) == [qual |-> alias_of(tbl), col |-> col,
                       as_alias |-> alias_of(tbl), as_col |-> col]

\* a join whose predicate takes both sides from the joined table
JoinItem_same_alias(e) == [table |-> e.t2, alias |-> alias_of(e.t2),
                           lhs |-> [qual |-> alias_of(e.t2), col |-> e.col],
                           rhs |-> [qual |-> alias_of(e.t2), col |-> e.col]]

\* f" LEFT JOIN {DATABASE}.{tbl2} AS {tbl2_alias} ON {tbl1_alias}.{col} = {tbl2_alias}.{col}"
JoinItem(e) == [table |-> e.t2, alias |-> alias_of(e.t2),
                lhs |-> [qual |-> alias_of(e.t1), col |-> e.col],
                rhs |-> [qual |-> alias_of(e.t2), col |-> e.col]]

\* the empty text between two separators
EmptyItem == [qual |-> <<>>, col |-> "", as_alias |-> <<>>, as_col |-> ""]

\* ", ".join([... for col in cols]) + ", ", as the items between the ", ":
\* a table without columns adds a separator and nothing before it
ProjChunk(tbl, cols) ==
    IF cols = <<>> THEN <<EmptyItem>>
    ELSE [j \in 1..Len(cols) |-> ProjItem(tbl, cols[j])]

RECURSIVE rstrip(_)
\* query.rstrip(", "): the trailing separators go, and the empty items with them
rstrip(items) ==
    IF items # <<>> /\ items[Len(items)] = EmptyItem
    THEN rstrip(SubSeq(items, 1, Len(items) - 1))
    ELSE items

ValueError(msg) == [kind |-> "ValueError", msg |-> msg]
EmptyQuery == [kind |-> "empty"]      \* the "" of the except branch

\* generate_join_query(tables_columns, from_table, join_column)
generate_join_query(tc, from_table, join_column) ==
    IF Len(tc) <= 1
    THEN ValueError("At least two tables are required for a JOIN query.")
    ELSE IF from_table \notin TableNames(tc)
    THEN ValueError("From table is not in tables list")
    ELSE IF \E t \in TableNames(tc) : AliasRaises[t]
    THEN EmptyQuery                                       \* IndexError, caught
    ELSE IF \E i \in 1..Len(join_column) :
               join_column[i].t1 \notin TableNames(tc)
               \/ join_column[i].t2 \notin TableNames(tc)
    THEN EmptyQuery                                       \* KeyError, caught
    ELSE [kind |-> "query",
          select |-> rstrip(Flatten([i \in 1..Len(tc) |->
                                         ProjChunk(tc[i].tbl, tc[i].cols)])),
          from |-> [table |-> from_table, alias |-> alias_of(from_table)],
          joins |-> [i \in 1..Len(join_column) |-> JoinItem(join_column[i])]]

\* ---------------------------------------------- view orchestrator (database.py)
\* A call's external outcomes: ex.exists in {"answers", "raises"} (the EXISTS
\* TABLE command), ex.create / ex.mv in BOOLEAN (the command raises).
Externals == [exists : {"answers", "raises"}, create : BOOLEAN, mv : BOOLEAN]

ExistsStmt(view) == [stmt |-> "EXISTS TABLE", name |-> view]

\* f"{table_alias[tbl]}_{col} {type}" for tbl, cols in columns.items() for col, dtype in cols.items()
ViewFields(columns) ==
    Flatten([i \in 1..Len(columns) |->
        [j \in 1..Len(columns[i].cols) |->
            [alias |-> alias_of(columns[i].tbl), col |-> columns[i].cols[j].col,
             type |-> storage_type(columns[i].cols[j].col, columns[i].cols[j].dtype)]]])

CreateViewTableStmt(view, columns, ord_by) ==
    [stmt |-> "CREATE TABLE IF NOT EXISTS", name |-> view,
     fields |-> ViewFields(columns), engine |-> "MergeTree()", order_by |-> ord_by]

\* create_view_table without the EXISTS check: the CREATE is sent every time
create_view_table_unchecked(view, columns, ord_by, exists, ex) ==
    IF Len(columns) = 0 \/ Len(ord_by) = 0
    THEN [raised |-> TRUE, sent |-> <<>>, created |-> FALSE]
    ELSE [raised |-> FALSE,
          sent |-> <<ExistsStmt(view), CreateViewTableStmt(view, columns, ord_by)>>,
          created |-> ~ex.create]

\* create_view_table(view, columns, ord_by), the backing table being there or
\* not (exists).  raised: a ValueError left the function; sent: the statements
\* handed to client.command; created: the CREATE TABLE succeeded.
create_view_table(view, columns, ord_by, exists, ex) ==
    IF Len(columns) = 0 \/ Len(ord_by) = 0
    THEN [raised |-> TRUE, sent |-> <<>>, created |-> FALSE]
    ELSE IF ex.exists = "raises" \/ exists
    THEN [raised |-> FALSE, sent |-> <<ExistsStmt(view)>>, created |-> FALSE]
    ELSE IF \E i \in 1..Len(columns) : AliasRaises[columns[i].tbl] \/ columns[i].isNone
    THEN [raised |-> FALSE, sent |-> <<ExistsStmt(view)>>, created |-> FALSE]
    ELSE [raised |-> FALSE,
          sent |-> <<ExistsStmt(view), CreateViewTableStmt(view, columns, ord_by)>>,
          created |-> ~ex.create]

MvStmt(view, refresh_rate, join_query) ==
    [stmt |-> "CREATE MATERIALIZED VIEW IF NOT EXISTS", name |-> view,
     refresh |-> refresh_rate, query |-> join_query]

\* {table: [col for col in columns.keys()] for table, columns in tables_columns.items()}
ColumnNames(tc) ==
    [i \in 1..Len(tc) |->
        [tbl |-> tc[i].tbl, isNone |-> FALSE,
         cols |-> [j \in 1..Len(tc[i].cols) |-> tc[i].cols[j].col]]]

DefaultRefreshRate == 30

\* create_materialized_view(view, tables_columns, from_table, join_column, ord_by)
\* on configuration c.  result: "ok", or "error" when the except branch logged.
create_materialized_view(c, exists, ex) ==
    LET vt == create_view_table(c.view, c.tables, c.ord_by, exists, ex)
        jq == generate_join_query(ColumnNames(c.tables), c.from_table, c.join_column)
    IN  IF vt.raised
        THEN [result |-> "error", sent |-> <<>>, created |-> FALSE, mv |-> FALSE]
        ELSE IF \E i \in 1..Len(c.tables) : c.tables[i].isNone     \* None.keys()
        THEN [result |-> "error", sent |-> vt.sent, created |-> vt.created, mv |-> FALSE]
        ELSE IF jq.kind = "ValueError"
        THEN [result |-> "error", sent |-> vt.sent, created |-> vt.created, mv |-> FALSE]
        ELSE [result |-> IF ex.mv \/ jq.kind = "empty" THEN "error" ELSE "ok",
              sent |-> vt.sent \o <<MvStmt(c.view, DefaultRefreshRate, jq)>>,
              created |-> vt.created,
              mv |-> ~ex.mv /\ jq.kind = "query"]

\* ------------------------------------------------- table manager (database.py)
\* remove_table_data that sends nothing
remove_table_data_noop(rows, exists, raises) == rows

\* remove_table_data: TRUNCATE TABLE; an exception (no such table, connection
\* failure) is logged and swallowed
remove_table_data(rows, exists, raises) ==
    IF exists /\ ~raises THEN {} ELSE rows

InsertExternals == [create : BOOLEAN, insert : BOOLEAN, optimize : BOOLEAN]

\* insert_csv_file: create_table (logs and swallows its own failure), then
\* insert_file of the staged CSV, then OPTIMIZE ... FINAL; the first exception
\* of the last two is logged and ends the function.
insert_csv_file(rows, exists, csv, ex) ==
    LET there == exists \/ ~ex.create
        inserted == there /\ csv.exists /\ ~ex.insert
    IN  [exists |-> there,
         rows |-> IF inserted THEN rows \cup csv.rows ELSE rows,
         step |-> IF ~inserted THEN "insert_failed"
                  ELSE IF ex.optimize THEN "optimize_failed"
                  ELSE IF ex.create THEN "create_logged"
                  ELSE "ok"]

\* ------------------------------------------------ normalizer (extract_logs.py)
\* log_to_csv / instructor_log_csv: "ok" writes the CSV; "open_raises" and
\* "write_raises" are to_csv failing inside the try (logged, dtypes still
\* returned); "raises" is an exception outside the try, which leaves the function.
NormOutcomes == {"ok", "open_raises", "write_raises", "raises"}

log_to_csv(csv, lines, outcome) ==
    CASE outcome = "ok" -> [exists |-> TRUE, rows |-> lines]
      [] outcome = "write_raises" -> [exists |-> TRUE, rows |-> {}]
      [] OTHER -> csv

\* ------------------------------------------------------------ main (app.py)
At(phase, i) == [phase |-> phase, i |-> i]
Idle == At("idle", 0)
Truthy(l) == l.kind = "list" /\ l.lines # {}

\* the dtypes log_to_csv returns for a source's records
MainColumns(s) ==
    CASE s = "enrollment" -> <<[col |-> "user_id", dtype |-> "int64"],
                               [col |-> "course_id", dtype |-> "int64"],
                               [col |-> "update_time", dtype |-> "datetime64[ns]"]>>
      [] s = "instructor" -> <<[col |-> "id", dtype |-> "int64"],
                               [col |-> "course_id", dtype |-> "int64"],
                               [col |-> "update_time", dtype |-> "object"]>>
      [] s = "course" -> <<[col |-> "course_id", dtype |-> "int64"],
                           [col |-> "course_name", dtype |-> "object"],
                           [col |-> "update_time", dtype |-> "datetime64[ns]"]>>
      [] s = "login" -> <<[col |-> "user_id", dtype |-> "int64"],
                          [col |-> "timestamp", dtype |-> "object"],
                          [col |-> "update_time", dtype |-> "datetime64[ns]"]>>

NameOf(s) ==
    CASE s = "enrollment" -> enrollment
      [] s = "instructor" -> instructor
      [] s = "course" -> course
      [] s = "login" -> login

\* the create_materialized_view call of main, tbl_columns[s] being None for a
\* source that was not loaded in this run
MainCfg(cols) ==
    [view |-> "course_enrollment",
     tables |-> [i \in 1..NTables |->
                    [tbl |-> NameOf(Tables[i]), isNone |-> ~cols[Tables[i]],
                     cols |-> IF cols[Tables[i]] THEN MainColumns(Tables[i]) ELSE <<>>]],
     from_table |-> enrollment,
     join_column |-> <<[t1 |-> enrollment, t2 |-> course, col |-> "course_id"],
                       [t1 |-> course, t2 |-> instructor, col |-> "course_id"],
                       [t1 |-> enrollment, t2 |-> login, col |-> "user_id"]>>,
     ord_by |-> <<"e_user_id", "e_course_id">>]

\* a create_materialized_view call: what the EXISTS check reported ("absent",
\* "present", "raised", or "none" when the check was not reached), how the call
\* ended and what it sent
NoCall == [called |-> FALSE, reported |-> "none", result |-> "none", sent |-> <<>>]
NoJoin == [kind |-> "none"]
NoQuery == [called |-> FALSE]

InitRun ==
    /\ logs = [s \in Sources |-> Unset]
    /\ tblColumns = [s \in Sources |-> FALSE]
    /\ offsetBefore = [s \in Sources |-> 0]
    /\ readEnd = [s \in Sources |-> 0]
    /\ readStep = [s \in Sources |-> "none"]
    /\ truncStep = [s \in Sources |-> "none"]
    /\ normStep = [s \in Sources |-> "none"]
    /\ insStep = [s \in Sources |-> "none"]

Init ==
    /\ pc = Idle
    /\ runs = 0
    /\ logFile = [s \in Sources |-> 0]
    /\ offsetFile = [s \in Sources |-> NoFile]
    /\ csvFile = [s \in Sources |-> [exists |-> FALSE, rows |-> {}]]
    /\ tableExists = [s \in Sources |-> FALSE]
    /\ table = [s \in Sources |-> {}]
    /\ InitRun
    /\ returnCount = [s \in Sources |-> [k \in Lines(MaxLines) |-> 0]]
    /\ faults = 0
    /\ viewExists = FALSE
    /\ mvExists = FALSE
    /\ cfg = MainCfg([s \in Sources |-> FALSE])
    /\ joinResult = NoJoin
    /\ mvResult = NoCall
    /\ tableQuery = NoQuery
    /\ calls = 0

RECURSIVE Sum(_, _)
Sum(f, S) == IF S = {} THEN 0
             ELSE LET x == CHOOSE x \in S : TRUE IN f[x] + Sum(f, S \ {x})

\* n more failures fit the budget
CanFail(n) == faults + n <= MaxFaults
Bit(b) == IF b THEN 1 ELSE 0

\* The log writer appends a line.  The writer runs beside main; an append
\* commutes with every step of main but the read of that file, which is one
\* step here, so appends are taken between runs only
\* (and not after the last run, where nothing reads them).
AppendLine(s) ==
    /\ pc = Idle
    /\ runs < MaxRuns
    /\ Sum(logFile, Sources) < MaxLines
    /\ logFile' = [logFile EXCEPT ![s] = @ + 1]
    /\ UNCHANGED <<pc, runs, offsetFile, csvFile, tableExists, table, logs, tblColumns,
                   offsetBefore, readEnd, readStep, truncStep, normStep, insStep, returnCount,
                   storeVars, viewVars, faults>>

\* main is called: tbl_columns = {tbl: None ...}
StartMain ==
    /\ pc = Idle
    /\ runs < MaxRuns
    /\ runs' = runs + 1
    /\ pc' = At("truncate", 0)
    /\ mvResult' = NoCall
    /\ logs' = [s \in Sources |-> Unset]
    /\ tblColumns' = [s \in Sources |-> FALSE]
    /\ offsetBefore' = [s \in Sources |-> 0]
    /\ readEnd' = [s \in Sources |-> 0]
    /\ readStep' = [s \in Sources |-> "none"]
    /\ truncStep' = [s \in Sources |-> "none"]
    /\ normStep' = [s \in Sources |-> "none"]
    /\ insStep' = [s \in Sources |-> "none"]
    /\ UNCHANGED <<logFile, offsetFile, csvFile, tableExists, table, returnCount,
                   storeVars, cfg, joinResult, tableQuery, calls, faults>>

\* for table in tables: remove_table_data(table)
\* (raising: the tables whose TRUNCATE raises for a reason of the environment)
RemoveTableData ==
    /\ pc = At("truncate", 0)
    /\ \E raising \in SUBSET Sources :
         /\ CanFail(Cardinality(raising))
         /\ faults' = faults + Cardinality(raising)
         /\ table' = [s \in Sources |->
                        remove_table_data(table[s], tableExists[s], s \in raising)]
         /\ truncStep' = [s \in Sources |->
                        IF tableExists[s] /\ s \notin raising THEN "ok" ELSE "failed"]
    /\ pc' = At("read", 1)
    /\ UNCHANGED <<runs, logFile, offsetFile, csvFile, tableExists, logs, tblColumns,
                   offsetBefore, readEnd, readStep, normStep, insStep, returnCount,
                   storeVars, viewVars>>

\* main testing "if x_logs is not None:": an empty list is processed too
NextSource_not_none(i, l) ==
    IF \E j \in (i + 1)..NTables : l[Tables[j]].kind = "list"
    THEN At("process", CHOOSE j \in (i + 1)..NTables :
                 /\ l[Tables[j]].kind = "list"
                 /\ \A h \in (i + 1)..(j - 1) : l[Tables[h]].kind # "list")
    ELSE At("view", 0)

\* the next "if x_logs:" of main that holds for a source after the i-th, else
\* the create_materialized_view call
NextSource(i, l) ==
    IF \E j \in (i + 1)..NTables : Truthy(l[Tables[j]])
    THEN At("process", CHOOSE j \in (i + 1)..NTables :
                 /\ Truthy(l[Tables[j]])
                 /\ \A h \in (i + 1)..(j - 1) : ~Truthy(l[Tables[h]]))
    ELSE At("view", 0)

\* x_logs = read_logs(LOG_FILES.get(x), x)
ReadLogs(i) ==
    /\ pc = At("read", i)
    /\ \E getRaises \in BOOLEAN, failAt \in ReadPoints, setOutcome \in SetOutcomes :
         LET s == Tables[i]
             offset == get_offset(offsetFile[s], getRaises)
             data == read_logs_result(offset, logFile[s], failAt)
             n == Bit(getRaises) + Bit(failAt # "none")
                    + Bit(failAt = "none" /\ setOutcome # "ok")
         IN
         /\ CanFail(n)
         /\ faults' = faults + n
         /\ offsetBefore' = [offsetBefore EXCEPT ![s] = get_offset(offsetFile[s], FALSE)]
         /\ readEnd' = [readEnd EXCEPT ![s] =
                IF failAt = "none" THEN tell(offset, logFile[s]) ELSE 0]
         /\ logs' = [logs EXCEPT ![s] = data]
         /\ offsetFile' = [offsetFile EXCEPT ![s] =
                read_logs_offset_file(@, offset, logFile[s], failAt, setOutcome)]
         /\ readStep' = [readStep EXCEPT ![s] =
                IF failAt # "none" THEN "raised"
                ELSE IF setOutcome = "ok" THEN "ok" ELSE "ok_offset_unsaved"]
         /\ returnCount' = [returnCount EXCEPT ![s] =
                [k \in Lines(MaxLines) |-> IF k \in data.lines THEN @[k] + 1 ELSE @[k]]]
    /\ pc' = IF i < NTables THEN At("read", i + 1) ELSE NextSource(0, logs')
    /\ UNCHANGED <<runs, logFile, csvFile, tableExists, table, tblColumns,
                   truncStep, normStep, insStep, storeVars, viewVars>>

\* columns = log_to_csv(x_logs, x)   (instructor_log_csv for instructor)
LogToCsv(i) ==
    /\ pc = At("process", i)
    /\ \E outcome \in NormOutcomes :
         LET s == Tables[i] IN
         /\ CanFail(Bit(outcome # "ok"))
         /\ faults' = faults + Bit(outcome # "ok")
         /\ csvFile' = [csvFile EXCEPT ![s] = log_to_csv(@, logs[s].lines, outcome)]
         /\ normStep' = [normStep EXCEPT ![s] = outcome]
         /\ pc' = IF outcome = "raises" THEN Idle ELSE At("insert", i)
    /\ UNCHANGED <<runs, logFile, offsetFile, tableExists, table, logs, tblColumns,
                   offsetBefore, readEnd, readStep, truncStep, insStep, returnCount,
                   storeVars, viewVars>>

\* insert_csv_file(file=CSV_FILES.get(x), tbl=x, ...); tbl_columns[x] = columns
InsertCsvFile(i) ==
    /\ pc = At("insert", i)
    /\ \E ex \in InsertExternals :
         LET s == Tables[i]
             r == insert_csv_file(table[s], tableExists[s], csvFile[s], ex)
             n == Bit(ex.create) + Bit(ex.insert) + Bit(ex.optimize)
         IN
         /\ CanFail(n)
         /\ faults' = faults + n
         /\ table' = [table EXCEPT ![s] = r.rows]
         /\ tableExists' = [tableExists EXCEPT ![s] = r.exists]
         /\ insStep' = [insStep EXCEPT ![s] = r.step]
         /\ tblColumns' = [tblColumns EXCEPT ![s] = TRUE]
    /\ pc' = NextSource(i, logs)
    /\ UNCHANGED <<runs, logFile, offsetFile, csvFile, logs,
                   offsetBefore, readEnd, readStep, truncStep, normStep, returnCount, viewVars,
                   storeVars>>

CallRecord(existed, ex, r) ==
    [called |-> TRUE,
     reported |-> IF r.sent = <<>> THEN "none"
                  ELSE IF ex.exists = "raises" THEN "raised"
                  ELSE IF existed THEN "present" ELSE "absent",
     result |-> r.result, sent |-> r.sent]

\* create_materialized_view(view='course_enrollment', tables_columns=tbl_columns, ...)
CreateMaterializedViewMain ==
    /\ pc = At("view", 0)
    /\ \E ex \in Externals :
         LET r == create_materialized_view(MainCfg(tblColumns), viewExists, ex)
             n == Bit(ex.exists = "raises") + Bit(ex.create) + Bit(ex.mv)
         IN
         /\ CanFail(n)
         /\ faults' = faults + n
         /\ viewExists' = (viewExists \/ r.created)
         /\ mvExists' = (mvExists \/ r.mv)
         /\ mvResult' = CallRecord(viewExists, ex, r)
    /\ pc' = At("clear", 0)
    /\ UNCHANGED <<runs, logFile, offsetFile, csvFile, tableExists, table, logs, tblColumns,
                   offsetBefore, readEnd, readStep, truncStep, normStep, insStep, returnCount,
                   cfg, joinResult, tableQuery, calls>>

\* for file in OFFSET_FILES.values(): clear_file_content(file)
ClearFileContent ==
    /\ pc = At("clear", 0)
    /\ \E raising \in SUBSET Sources :
         /\ CanFail(Cardinality(raising))
         /\ faults' = faults + Cardinality(raising)
         /\ offsetFile' = [s \in Sources |->
                             clear_file_content(offsetFile[s], s \in raising)]
    /\ pc' = Idle
    /\ UNCHANGED <<runs, logFile, csvFile, tableExists, table, logs, tblColumns,
                   offsetBefore, readEnd, readStep, truncStep, normStep, insStep, returnCount,
                   storeVars, viewVars>>

Next ==
    \/ \E s \in Sources : AppendLine(s)
    \/ StartMain
    \/ RemoveTableData
    \/ \E i \in 1..NTables : ReadLogs(i)
    \/ \E i \in 1..NTables : LogToCsv(i)
    \/ \E i \in 1..NTables : InsertCsvFile(i)
    \/ CreateMaterializedViewMain
    \/ ClearFileContent

Spec == Init /\ [][Next]_vars

\* ---------------------------------------------- main after an aborted run
\* The state a first run of main leaves when log_to_csv raised for login, the
\* last source: every source was read to the end of its file and its offset
\* persisted, the sources before login that had lines were loaded, and main's
\* except branch skipped the view and the clearing of the offset files.
LinesAtAbort ==
    {n \in [Sources -> 0..MaxLines] : Sum(n, Sources) <= MaxLines /\ n["login"] >= 1}

LoadedAtAbort(n, s) == s # "login" /\ n[s] > 0

InitAfterAbort ==
    \E n \in LinesAtAbort :
        /\ pc = Idle
        /\ runs = 1
        /\ logFile = n
        /\ offsetFile = [s \in Sources |-> set_offset(NoFile, FileSize(n[s]), "ok")]
        /\ csvFile = [s \in Sources |->
              IF LoadedAtAbort(n, s) THEN [exists |-> TRUE, rows |-> Lines(n[s])]
              ELSE [exists |-> FALSE, rows |-> {}]]
        /\ tableExists = [s \in Sources |-> LoadedAtAbort(n, s)]
        /\ table = [s \in Sources |-> IF LoadedAtAbort(n, s) THEN Lines(n[s]) ELSE {}]
        /\ logs = [s \in Sources |-> List(Lines(n[s]))]
        /\ tblColumns = [s \in Sources |-> LoadedAtAbort(n, s)]
        /\ offsetBefore = [s \in Sources |-> 0]
        /\ readEnd = [s \in Sources |-> FileSize(n[s])]
        /\ readStep = [s \in Sources |-> "ok"]
        /\ truncStep = [s \in Sources |-> "failed"]
        /\ normStep = [s \in Sources |->
              IF n[s] = 0 THEN "none" ELSE IF s = "login" THEN "raises" ELSE "ok"]
        /\ insStep = [s \in Sources |-> IF LoadedAtAbort(n, s) THEN "ok" ELSE "none"]
        /\ returnCount = [s \in Sources |->
              [k \in Lines(MaxLines) |-> IF k <= n[s] THEN 1 ELSE 0]]
        /\ faults = 0
        /\ viewExists = FALSE
        /\ mvExists = FALSE
        /\ cfg = MainCfg([s \in Sources |-> FALSE])
        /\ joinResult = NoJoin
        /\ mvResult = NoCall
        /\ tableQuery = NoQuery
        /\ calls = 0

SpecAfterAbort == InitAfterAbort /\ [][Next]_vars

\* --------------------------------------- view configurations (database.py API)
\* The tables a configuration draws from, with their columns.  course_info and
\* course_internal derive the same alias.
ViewTables == <<enrollment, course_info, course_internal>>

ViewColumns(t) ==
    CASE t = enrollment -> <<[col |-> "user_id", dtype |-> "int64"],
                             [col |-> "course_id", dtype |-> "int64"]>>
      [] t = course_info -> <<[col |-> "course_id", dtype |-> "int64"],
                              [col |-> "course_name", dtype |-> "string"]>>
      [] t = course_internal -> <<[col |-> "course_id", dtype |-> "int64"],
                                  [col |-> "update_time", dtype |-> "string"]>>

RECURSIVE Pick(_, _)
\* the entries of q at the indices in S, in q's order
Pick(q, S) ==
    IF q = <<>> THEN <<>>
    ELSE (IF Len(q) \in S THEN Pick(SubSeq(q, 1, Len(q) - 1), S) \o <<q[Len(q)]>>
          ELSE Pick(SubSeq(q, 1, Len(q) - 1), S))

TableDicts ==
    {Pick([i \in 1..Len(ViewTables) |->
              [tbl |-> ViewTables[i], isNone |-> FALSE, cols |-> ViewColumns(ViewTables[i])]], S) :
        S \in SUBSET (1..Len(ViewTables))}

Edges == {[t1 |-> a, t2 |-> b, col |-> "course_id"] :
              a \in Range(ViewTables), b \in Range(ViewTables)} 

\* a dict has one entry per key (t1, t2)
EdgeLists ==
    UNION {{q \in [1..n -> {e \in Edges : e.t1 # e.t2}] :
               \A i, j \in 1..n : i # j => q[i] # q[j]} : n \in 0..MaxEdges}

Configs ==
    [view : {"course_enrollment"}, tables : TableDicts, from_table : Range(ViewTables),
     join_column : EdgeLists, ord_by : {<<>>, <<"e_user_id", "e_course_id">>}]

InitView ==
    /\ pc = Idle
    /\ runs = 0
    /\ logFile = [s \in Sources |-> 0]
    /\ offsetFile = [s \in Sources |-> NoFile]
    /\ csvFile = [s \in Sources |-> [exists |-> FALSE, rows |-> {}]]
    /\ tableExists = [s \in Sources |-> FALSE]
    /\ table = [s \in Sources |-> {}]
    /\ InitRun
    /\ returnCount = [s \in Sources |-> [k \in Lines(MaxLines) |-> 0]]
    /\ faults = 0
    /\ viewExists \in BOOLEAN
    /\ mvExists = FALSE
    /\ cfg \in Configs
    /\ joinResult = NoJoin
    /\ mvResult = NoCall
    /\ tableQuery = NoQuery
    /\ calls = 0

\* generate_join_query(tables_columns, from_table, join_column) on cfg
CallGenerateJoinQuery ==
    /\ joinResult = NoJoin
    /\ calls = 0
    /\ joinResult' = generate_join_query(ColumnNames(cfg.tables), cfg.from_table,
                                         cfg.join_column)
    /\ UNCHANGED <<pipeVars, storeVars, cfg, mvResult, tableQuery, calls>>

\* create_materialized_view(view, tables_columns, from_table, join_column, ord_by) on cfg
CallCreateMaterializedView ==
    /\ calls < MaxCalls
    /\ calls' = calls + 1
    /\ \E ex \in Externals :
         LET r == create_materialized_view(cfg, viewExists, ex) IN
         /\ viewExists' = (viewExists \/ r.created)
         /\ mvExists' = (mvExists \/ r.mv)
         /\ mvResult' = CallRecord(viewExists, ex, r)
    /\ UNCHANGED <<pipeVars, cfg, joinResult, tableQuery>>

NextView == CallGenerateJoinQuery \/ CallCreateMaterializedView

SpecView == InitView /\ [][NextView]_vars

\* ------------------------------------------ join inputs (generate_join_query)
\* The tables main joins, each with a column list of up to MaxCols names (none
\* included: a DataFrame without columns has empty dtypes), any base table and
\* any ordered list of up to MaxEdges edges.
JoinTables == <<enrollment, course, instructor>>
ColumnPool == <<"course_id", "user_id", "course_name", "update_time">>
ColumnLists ==
    {SubSeq(ColumnPool, 1, n) : n \in {m \in 0..MaxCols : m <= Len(ColumnPool)}}

JoinTableDicts ==
    UNION {{Pick([i \in 1..Len(JoinTables) |->
                    [tbl |-> JoinTables[i], isNone |-> FALSE,
                     cols |-> [j \in 1..Len(f[i]) |-> [col |-> f[i][j], dtype |-> "string"]]]], S) :
               S \in SUBSET (1..Len(JoinTables))} :
           f \in [1..Len(JoinTables) -> ColumnLists]}

JoinEdges == {[t1 |-> a, t2 |-> b, col |-> "course_id"] :
                  a \in Range(JoinTables), b \in Range(JoinTables)}

JoinEdgeLists ==
    UNION {{q \in [1..n -> {e \in JoinEdges : e.t1 # e.t2}] :
               \A i, j \in 1..n : i # j => q[i] # q[j]} : n \in 0..MaxEdges}

JoinConfigs ==
    [view : {"course_enrollment"}, tables : JoinTableDicts, from_table : Range(JoinTables),
     join_column : JoinEdgeLists, ord_by : {<<"e_user_id", "e_course_id">>}]

InitJoin ==
    /\ pc = Idle
    /\ runs = 0
    /\ logFile = [s \in Sources |-> 0]
    /\ offsetFile = [s \in Sources |-> NoFile]
    /\ csvFile = [s \in Sources |-> [exists |-> FALSE, rows |-> {}]]
    /\ tableExists = [s \in Sources |-> FALSE]
    /\ table = [s \in Sources |-> {}]
    /\ InitRun
    /\ returnCount = [s \in Sources |-> [k \in Lines(MaxLines) |-> 0]]
    /\ faults = 0
    /\ viewExists = FALSE
    /\ mvExists = FALSE
    /\ cfg \in JoinConfigs
    /\ joinResult = NoJoin
    /\ mvResult = NoCall
    /\ tableQuery = NoQuery
    /\ calls = 0

NextJoin == CallGenerateJoinQuery

SpecJoin == InitJoin /\ [][NextJoin]_vars

\* ------------------- schema inputs (generate_table_query, create_view_table)
\* Every pandas dtype label of the lookup table and one outside it; the
\* columns of a table take the label of the input.
DtypeLabels == DOMAIN DATATYPE_MAPPING \cup {"complex128"}

SchemaColumns(t, d) ==
    CASE t = enrollment -> <<[col |-> "user_id", dtype |-> d],
                             [col |-> "update_time", dtype |-> d]>>
      [] t = course -> <<[col |-> "course_id", dtype |-> d],
                         [col |-> "timestamp", dtype |-> d]>>
      [] t = instructor -> <<[col |-> "id", dtype |-> d],
                             [col |-> "update_time", dtype |-> d],
                             [col |-> "login_time", dtype |-> d]>>

SchemaTableDicts ==
    {Pick([i \in 1..Len(JoinTables) |->
              [tbl |-> JoinTables[i], isNone |-> FALSE,
               cols |-> SchemaColumns(JoinTables[i], d)]], S) :
        S \in SUBSET (1..Len(JoinTables)), d \in DtypeLabels}

SchemaConfigs ==
    [view : {"course_enrollment"}, tables : SchemaTableDicts, from_table : {enrollment},
     join_column : {<<[t1 |-> enrollment, t2 |-> course, col |-> "course_id"]>>},
     ord_by : {<<"e_user_id", "e_course_id">>}]

InitSchema ==
    /\ pc = Idle
    /\ runs = 0
    /\ logFile = [s \in Sources |-> 0]
    /\ offsetFile = [s \in Sources |-> NoFile]
    /\ csvFile = [s \in Sources |-> [exists |-> FALSE, rows |-> {}]]
    /\ tableExists = [s \in Sources |-> FALSE]
    /\ table = [s \in Sources |-> {}]
    /\ InitRun
    /\ returnCount = [s \in Sources |-> [k \in Lines(MaxLines) |-> 0]]
    /\ faults = 0
    /\ viewExists \in BOOLEAN
    /\ mvExists = FALSE
    /\ cfg \in SchemaConfigs
    /\ joinResult = NoJoin
    /\ mvResult = NoCall
    /\ tableQuery = NoQuery
    /\ calls = 0

\* generate_table_query(columns, tbl, ord_by) on table i of cfg
CallGenerateTableQuery(i) ==
    /\ i \in 1..Len(cfg.tables)
    /\ tableQuery' = [called |-> TRUE, table |-> i,
                      query |-> generate_table_query(cfg.tables[i].cols, cfg.tables[i].tbl,
                                                     <<"update_time">>)]
    /\ UNCHANGED <<pipeVars, storeVars, cfg, joinResult, mvResult, calls>>

NextSchema ==
    \/ \E i \in 1..Len(JoinTables) : CallGenerateTableQuery(i)
    \/ CallCreateMaterializedView

SpecSchema == InitSchema /\ [][NextSchema]_vars

\* ================================================================ properties
\* the offset persisted for source s
Offset(s) == get_offset(offsetFile[s], FALSE)
InRun == pc # Idle
RunEnded == pc = Idle /\ runs > 0

\* ---- C1 (Spec) -----------------------------------------------------------
\* C1: when this run's read_logs of a source raised at open, seek or readlines,
\* the offset persisted in the source's offset file is the one persisted when
\* the call was entered (until main clears the offset files at the end of the run).
C1_FailedReadKeepsOffset ==
    \A s \in Sources :
        (InRun /\ readStep[s] = "raised") => Offset(s) = offsetBefore[s]

\* a read that raised although the file held lines past the persisted offset
C1_Witness ==
    \E s \in Sources :
        /\ InRun /\ readStep[s] = "raised"
        /\ FileSize(logFile[s]) > offsetBefore[s]
        /\ logs[s] = None
        /\ Offset(s) = offsetBefore[s]

\* ---- C2 (Spec) -----------------------------------------------------------
\* C2: within a run, every line read_logs returned that the persisted offset
\* already covers has been loaded into the source's table.
C2_OffsetOnlyAfterLoad ==
    \A s \in Sources : \A k \in Lines(logFile[s]) :
        (InRun /\ k \in logs[s].lines /\ k * LineBytes <= Offset(s)) => k \in table[s]

\* ---- C3 (Spec) -----------------------------------------------------------
\* C3: over all runs, no line is returned by read_logs more than once, and no
\* line the persisted offset covers was never returned.
C3_ExactlyOnce ==
    \A s \in Sources : \A k \in Lines(logFile[s]) :
        /\ returnCount[s][k] <= 1
        /\ (k * LineBytes <= Offset(s)) => returnCount[s][k] >= 1

\* ---- C4 (Spec) -----------------------------------------------------------
\* bytes read_logs has returned for source s, over all runs
BytesConsumed(s) == LineBytes * Sum(returnCount[s], Lines(MaxLines))

\* C4: after each successful read_logs of a source (the offset written), the
\* persisted offset equals the cumulative number of bytes consumed so far for
\* that source; as that number never decreases, neither does the offset from
\* one read to the next.
C4_OffsetIsCumulativeBytes ==
    \A s \in Sources :
        (InRun /\ readStep[s] = "ok") => Offset(s) = BytesConsumed(s)

\* ---- C5 (Spec) -----------------------------------------------------------
InsertFailed(s) == insStep[s] \in {"insert_failed", "optimize_failed", "create_logged"}

\* C5 as stated: after a successful truncation, an insert_csv_file that logged
\* an error at any step (table creation, bulk insert, OPTIMIZE FINAL) leaves
\* the table without rows.
C5_FailedLoadLeavesEmpty ==
    \A s \in Sources :
        (truncStep[s] = "ok" /\ InsertFailed(s)) => table[s] = {}

\* C5 amended: after a successful truncation, an insert_csv_file whose bulk
\* insert (insert_file) raised leaves the table without rows.
C5_FailedBulkInsertLeavesEmpty ==
    \A s \in Sources :
        (truncStep[s] = "ok" /\ insStep[s] = "insert_failed") => table[s] = {}

\* a table loaded by an earlier run, truncated in this one, whose reload of
\* new lines failed at the bulk insert
C5_Witness ==
    \E s \in Sources :
        /\ runs > 1 /\ truncStep[s] = "ok" /\ insStep[s] = "insert_failed"
        /\ Truthy(logs[s]) /\ csvFile[s].rows # {}
        /\ table[s] = {}

\* ---- C6 (Spec) -----------------------------------------------------------
\* no step of source s failed in this run
OwnStepsSucceeded(s) ==
    /\ readStep[s] = "ok" /\ Truthy(logs[s])
    /\ normStep[s] \in {"none", "ok"}
    /\ insStep[s] \in {"none", "ok"}

\* C6: at the end of a run of main, every source whose own steps did not fail
\* has the lines read for it loaded, whatever failed for the other sources.
C6_FailureIsolation ==
    RunEnded => \A s \in Sources : OwnStepsSucceeded(s) => logs[s].lines \subseteq table[s]

\* ---- C7 .. C10 (SpecView) --------------------------------------------------
HasStmt(q, kind) == \E i \in 1..Len(q) : q[i].stmt = kind
HasCreateTable(q) == HasStmt(q, "CREATE TABLE IF NOT EXISTS")
HasMv(q) == HasStmt(q, "CREATE MATERIALIZED VIEW IF NOT EXISTS")
NoDDL(q) == ~HasCreateTable(q) /\ ~HasMv(q)
JoinCalled == joinResult # NoJoin

AliasCollision(c) ==
    \E a, b \in TableNames(c.tables) : a # b /\ table_alias(a) = table_alias(b)

\* every edge's fromTable is the base table or the toTable of an earlier edge
EdgesReachable(c) ==
    \A i \in 1..Len(c.join_column) :
        \/ c.join_column[i].t1 = c.from_table
        \/ \E j \in 1..(i - 1) : c.join_column[j].t2 = c.join_column[i].t1

JoinPreconditions(c) ==
    /\ Len(c.tables) >= 2
    /\ c.from_table \in TableNames(c.tables)
    /\ EdgesReachable(c)

\* C7: with two tables deriving the same alias, generate_join_query ends in a
\* validation error, and create_materialized_view fails with no CREATE
\* statement sent.
C7_AliasCollisionRejected ==
    AliasCollision(cfg) =>
        /\ JoinCalled => joinResult.kind = "ValueError"
        /\ mvResult.called => (mvResult.result = "error" /\ NoDDL(mvResult.sent))

\* C8: when fewer than two tables are given, the base table is not among them
\* or an edge's fromTable is not yet reachable, generate_join_query ends in a
\* configuration error and no materialized-view statement carries a query.
C8_JoinPreconditionsEnforced ==
    ~JoinPreconditions(cfg) =>
        /\ JoinCalled => joinResult.kind = "ValueError"
        /\ mvResult.called => ~HasMv(mvResult.sent)

FailsValidation(c) ==
    \/ c.from_table \notin TableNames(c.tables)
    \/ Len(c.tables) < 2
    \/ Len(c.tables) = 0
    \/ Len(c.ord_by) = 0

\* C9: create_materialized_view on a configuration that fails validation sends
\* neither the backing table's CREATE TABLE nor the CREATE MATERIALIZED VIEW.
C9_NoDDLOnInvalidConfig ==
    (FailsValidation(cfg) /\ mvResult.called) => NoDDL(mvResult.sent)

ValidConfig(c) ==
    /\ JoinPreconditions(c)
    /\ \A i \in 1..Len(c.join_column) : c.join_column[i].t2 \in TableNames(c.tables)
    /\ \A i \in 1..Len(c.tables) : Len(c.tables[i].cols) > 0 /\ ~c.tables[i].isNone
    /\ Len(c.ord_by) > 0
    /\ ~AliasCollision(c)

\* C10: in every create_materialized_view call on a valid configuration, the
\* backing table's CREATE is sent exactly when the EXISTS check reported the
\* table absent, and the CREATE MATERIALIZED VIEW IF NOT EXISTS is sent.
C10_CreateIffAbsentAndMvAlways ==
    (ValidConfig(cfg) /\ mvResult.called) =>
        /\ HasCreateTable(mvResult.sent) <=> (mvResult.reported = "absent")
        /\ HasMv(mvResult.sent)

\* a repeated call that found the backing table there: no CREATE TABLE, the
\* materialized view re-asserted
C10_Witness ==
    /\ ValidConfig(cfg) /\ calls > 1 /\ cfg.join_column # <<>>
    /\ mvResult.reported = "present"
    /\ ~HasCreateTable(mvResult.sent) /\ HasMv(mvResult.sent)

\* ---- C11 (SpecJoin) --------------------------------------------------------
\* the item `alias.col AS alias_col` of column col of table tbl
ExpectedItem(tbl, col) ==
    [qual |-> table_alias(tbl), col |-> col, as_alias |-> table_alias(tbl), as_col |-> col]

\* the `LEFT JOIN toTable AS toAlias ON fromAlias.col = toAlias.col` of edge e
ExpectedJoin(e) ==
    [table |-> e.t2, alias |-> table_alias(e.t2),
     lhs |-> [qual |-> table_alias(e.t1), col |-> e.col],
     rhs |-> [qual |-> table_alias(e.t2), col |-> e.col]]

\* at least two tables, the base table and every edge's tables among them,
\* every edge's fromTable reachable, no two tables with the same alias
ValidJoinInput(c) ==
    /\ JoinPreconditions(c)
    /\ \A i \in 1..Len(c.join_column) : c.join_column[i].t2 \in TableNames(c.tables)
    /\ ~AliasCollision(c)

Occurrences(q, x) == Cardinality({k \in 1..Len(q) : q[k] = x})

\* C11: on a valid input generate_join_query returns a query whose projection
\* holds, for every table and every one of its columns, exactly one item
\* `alias.col AS alias_col` and no item of any other column; whose FROM clause
\* is the base table under its alias; and whose LEFT JOINs are one per edge, in
\* the edge list's order, each on fromAlias.col = toAlias.col.
C11_JoinQueryShape ==
    (ValidJoinInput(cfg) /\ JoinCalled) =>
        /\ joinResult.kind = "query"
        /\ \A i \in 1..Len(cfg.tables) : \A j \in 1..Len(cfg.tables[i].cols) :
              Occurrences(joinResult.select,
                          ExpectedItem(cfg.tables[i].tbl, cfg.tables[i].cols[j].col)) = 1
        /\ \A k \in 1..Len(joinResult.select) :
              \/ joinResult.select[k] = EmptyItem
              \/ \E i \in 1..Len(cfg.tables) : \E j \in 1..Len(cfg.tables[i].cols) :
                    joinResult.select[k] =
                        ExpectedItem(cfg.tables[i].tbl, cfg.tables[i].cols[j].col)
        /\ joinResult.from = [table |-> cfg.from_table, alias |-> table_alias(cfg.from_table)]
        /\ Len(joinResult.joins) = Len(cfg.join_column)
        /\ \A i \in 1..Len(cfg.join_column) :
              joinResult.joins[i] = ExpectedJoin(cfg.join_column[i])

\* three tables with columns, two edges chained from the base table, compiled
C11_Witness ==
    /\ ValidJoinInput(cfg) /\ JoinCalled
    /\ Len(cfg.tables) = 3 /\ \A i \in 1..3 : Len(cfg.tables[i].cols) = 2
    /\ cfg.from_table = enrollment
    /\ cfg.join_column = <<[t1 |-> enrollment, t2 |-> course, col |-> "course_id"],
                           [t1 |-> course, t2 |-> instructor, col |-> "course_id"]>>
    /\ Len(joinResult.select) = 6
    /\ Len(joinResult.joins) = 2

\* ---- C12 (SpecSchema) ------------------------------------------------------
TemporalNames == {"update_time", "timestamp"}

\* the storage type the claim gives a field: DateTime for a temporal name, else
\* the lookup table's value for the observed type (String for a type the table
\* does not list)
ClaimedType(field, dtype, type) ==
    /\ field \in TemporalNames => type = "DateTime"
    /\ (field \notin TemporalNames /\ dtype \in DOMAIN DATATYPE_MAPPING) =>
           type = DATATYPE_MAPPING[dtype]
    /\ (field \notin TemporalNames /\ dtype \notin DOMAIN DATATYPE_MAPPING) =>
           type = "String"

\* the columns of all tables of c, in order, each with its table
AllColumns(c) ==
    Flatten([i \in 1..Len(c.tables) |->
        [j \in 1..Len(c.tables[i].cols) |->
            [tbl |-> c.tables[i].tbl, col |-> c.tables[i].cols[j].col,
             dtype |-> c.tables[i].cols[j].dtype]]])

\* C12: generate_table_query emits one field per column of its table, and
\* create_view_table one alias-prefixed field per column of every table; in
\* both, a field named update_time or timestamp has type DateTime whatever
\* its observed type, and every other field the lookup table's value for its
\* observed type.
C12_TemporalOverride ==
    /\ tableQuery.called =>
          LET cols == cfg.tables[tableQuery.table].cols
              fields == tableQuery.query.fields
          IN  /\ Len(fields) = Len(cols)
              /\ \A j \in 1..Len(cols) :
                    /\ fields[j].col = cols[j].col
                    /\ ClaimedType(cols[j].col, cols[j].dtype, fields[j].type)
    /\ \A n \in 1..Len(mvResult.sent) :
          mvResult.sent[n].stmt = "CREATE TABLE IF NOT EXISTS" =>
              LET cols == AllColumns(cfg)
                  fields == mvResult.sent[n].fields
              IN  /\ Len(fields) = Len(cols)
                  /\ \A k \in 1..Len(cols) :
                        /\ fields[k].alias = table_alias(cols[k].tbl)
                        /\ fields[k].col = cols[k].col
                        /\ ClaimedType(cols[k].col, cols[k].dtype, fields[k].type)

\* update_time observed as "string": DateTime in the table's CREATE and in the
\* backing table's, next to a column that keeps the lookup's String
C12_Witness ==
    /\ tableQuery.called /\ cfg.tables[tableQuery.table].tbl = enrollment
    /\ cfg.tables[tableQuery.table].cols[2] = [col |-> "update_time", dtype |-> "string"]
    /\ tableQuery.query.fields[2].type = "DateTime"
    /\ tableQuery.query.fields[1].type = "String"
    /\ \E n \in 1..Len(mvResult.sent) :
          /\ mvResult.sent[n].stmt = "CREATE TABLE IF NOT EXISTS"
          /\ mvResult.sent[n].fields[2] =
                 [alias |-> <<"e">>, col |-> "update_time", type |-> "DateTime"]

\* ---- C13 (Spec) ------------------------------------------------------------
\* C13: whenever this run's read_logs returned a list for a source, the offset
\* persisted in the source's offset file is the file position at the end of
\* that read (until main clears the offset files at the end of the run), also
\* when set_offset failed.
C13_ReturnedLinesAreCovered ==
    \A s \in Sources :
        (InRun /\ logs[s].kind = "list") => Offset(s) = readEnd[s]

\* ---- C14 (SpecAfterAbort) ---------------------------------------------------
\* this run's read_logs of source s returned None or an empty list
ReadReturnedNothing(s) == logs[s].kind \in {"None", "list"} /\ logs[s].lines = {}

\* remove_table_data ran for every table before the first read_logs, and
\* insert_csv_file ran only for sources whose read_logs returned lines
TruncateFirstReloadIfRead ==
    /\ (\E s \in Sources : readStep[s] # "none") => \A t \in Sources : truncStep[t] # "none"
    /\ \A s \in Sources : insStep[s] # "none" => Truthy(logs[s])

\* C14 as stated: in a run of main the four tables are truncated before any
\* read, a table is reloaded only if its read returned a line, and at the end
\* of the run the table of every source whose read returned nothing is empty.
C14_NothingReadLeavesEmpty ==
    /\ InRun => TruncateFirstReloadIfRead
    /\ RunEnded =>
          \A s \in Sources : ReadReturnedNothing(s) => table[s] = {}

\* C14 amended: ... and at the end of the run the table of every source whose
\* TRUNCATE succeeded and whose read returned nothing is empty.
C14_TruncatedAndNothingReadLeavesEmpty ==
    /\ InRun => TruncateFirstReloadIfRead
    /\ RunEnded =>
          \A s \in Sources :
              (truncStep[s] = "ok" /\ ReadReturnedNothing(s)) => table[s] = {}

\* a run ended with another source reloaded and this one, loaded by the run
\* before and without new lines, left empty by its truncation
C14_Witness ==
    /\ RunEnded /\ runs > 1
    /\ \E s, t \in Sources :
          /\ truncStep[s] = "ok" /\ offsetBefore[s] > 0
          /\ logs[s] = List({}) /\ insStep[s] = "none" /\ table[s] = {}
          /\ insStep[t] = "ok" /\ table[t] # {}

====
